---- MODULE Spec2Model ----
(***************************************************************************)
(* pkg-verify (lib/verify-bak.js, second unit: class Verifier and the      *)
(* helpers getModulePaths / stat / resolve / read / hasBinding).            *)
(*                                                                         *)
(* JavaScript strings are sequences of character codes, exactly as the     *)
(* source inspects them with charCodeAt / name[0] / indexOf.  Paths are    *)
(* POSIX paths (process.platform # 'win32').                               *)
(***************************************************************************)
EXTENDS Integers, Sequences, FiniteSets, TLC

(***************************************************************************)
(* Bounds of the model.                                                    *)
(***************************************************************************)
\* number of top-level verify() calls made on one Verifier instance
MaxCalls == 2
\* depth of the JavaScript call stack available to verifyPackage recursion
MaxDepth == 7

(***************************************************************************)
(* String literals (character codes).                                      *)
(***************************************************************************)
SLASH == 47
DOT == 46
AT == 64
COLON == 58

\* "node_modules"
NodeModules == <<110, 111, 100, 101, 95, 109, 111, 100, 117, 108, 101, 115>>
\* "package.json"
PackageJson == <<112, 97, 99, 107, 97, 103, 101, 46, 106, 115, 111, 110>>
\* "binding.gyp"
BindingGyp == <<98, 105, 110, 100, 105, 110, 103, 46, 103, 121, 112>>

\* package names used by the modelled installations
NameR == <<114>>
NameA == <<97>>
NameB == <<98>>
NameC == <<99>>
NameX == <<120>>
\* "@s"
NameScoped == <<64, 115>>
\* "u://v"
NameUrl == <<117, 58, 47, 47, 118>>
\* ""
NameEmpty == <<>>
\* "./node_modules/a"
NameRelA == <<46, 47>> \o NodeModules \o <<47, 97>>
\* "../b"
NameUpB == <<46, 46, 47, 98>>

\* version strings "1.2.0", "2.0.0", "bad"; ranges "^1.0.0", "^2.0.0", "*"
V120 == <<49, 46, 50, 46, 48>>
V200 == <<50, 46, 48, 46, 48>>
VBad == <<98, 97, 100>>
R1 == <<94, 49, 46, 48, 46, 48>>
R2 == <<94, 50, 46, 48, 46, 48>>
RAny == <<42>>

(***************************************************************************)
(* Node's path module (POSIX): Path.resolve and Path.basename.             *)
(***************************************************************************)
RECURSIVE SplitAcc(_, _, _, _, _)
SplitAcc(s, sep, i, cur, acc) ==
  IF i > Len(s) THEN Append(acc, cur)
  ELSE IF s[i] = sep THEN SplitAcc(s, sep, i + 1, <<>>, Append(acc, cur))
  ELSE SplitAcc(s, sep, i + 1, Append(cur, s[i]), acc)

\* s.split(sep) for a one-character separator
SplitOn(s, sep) == SplitAcc(s, sep, 1, <<>>, <<>>)

\* s.split('/')
Split(s) == SplitOn(s, SLASH)

\* Path.delimiter (POSIX): ':'
PathDelimiter == COLON

RECURSIVE NormAcc(_, _, _)
NormAcc(segs, i, acc) ==
  IF i > Len(segs) THEN acc
  ELSE IF segs[i] = <<>> \/ segs[i] = <<DOT>> THEN NormAcc(segs, i + 1, acc)
  ELSE IF segs[i] = <<DOT, DOT>>
    THEN NormAcc(segs, i + 1,
                 IF Len(acc) = 0 THEN acc ELSE SubSeq(acc, 1, Len(acc) - 1))
  ELSE NormAcc(segs, i + 1, Append(acc, segs[i]))

RECURSIVE JoinAbs(_, _)
JoinAbs(segs, i) ==
  IF i > Len(segs) THEN <<>>
  ELSE <<SLASH>> \o segs[i] \o JoinAbs(segs, i + 1)

\* Path.resolve(from, to) for an absolute `from`
PathResolve(from, to) ==
  LET raw == IF Len(to) > 0 /\ to[1] = SLASH THEN to
             ELSE from \o <<SLASH>> \o to
      segs == NormAcc(Split(raw), 1, <<>>)
  IN IF Len(segs) = 0 THEN <<SLASH>> ELSE JoinAbs(segs, 1)

\* Path.basename(path)
PathBasename(path) ==
  LET segs == NormAcc(Split(path), 1, <<>>)
  IN IF Len(segs) = 0 THEN <<>> ELSE segs[Len(segs)]

(***************************************************************************)
(* JavaScript values as the verifier sees them (the result of JSON.parse,  *)
(* property reads, typeof and truthiness).  An object keeps its own        *)
(* properties in insertion order, as Object.keys reports them.             *)
(***************************************************************************)
Null == [type |-> "null"]
Undefined == [type |-> "undefined"]
Num(n) == [type |-> "number", val |-> n]
Str(s) == [type |-> "string", val |-> s]
Obj(props) == [type |-> "object", props |-> props]

\* typeof v
TypeOf(v) == IF v.type = "null" THEN "object" ELSE v.type

\* !v is false
Truthy(v) ==
  CASE v.type = "null" -> FALSE
    [] v.type = "undefined" -> FALSE
    [] v.type = "number" -> v.val # 0
    [] v.type = "string" -> Len(v.val) > 0
    [] OTHER -> TRUE

\* v.key would throw a TypeError
GetThrows(v) == v.type \in {"null", "undefined"}

\* v[key] for a value on which the read does not throw
Get(v, key) ==
  IF v.type # "object" THEN Undefined
  ELSE LET hits == {i \in 1..Len(v.props) : v.props[i][1] = key}
       IN IF hits = {} THEN Undefined
          ELSE v.props[CHOOSE i \in hits : TRUE][2]

\* Object.keys(v)
ObjectKeys(v) == [i \in 1..Len(v.props) |-> v.props[i][1]]

\* v === n for a number literal n
IsNum(v, n) == v.type = "number" /\ v.val = n

\* v === s for a string s
IsStr(v, s) == v.type = "string" /\ v.val = s

(***************************************************************************)
(* The semver collaborator (./semver), restricted to versions "d.d.d" and  *)
(* the ranges "*", "d.d.d" and "^d.d.d" with single digits.                *)
(***************************************************************************)
IsDigit(c) == c >= 48 /\ c <= 57

IsVersionText(v) ==
  /\ Len(v) = 5
  /\ IsDigit(v[1]) /\ v[2] = DOT /\ IsDigit(v[3]) /\ v[4] = DOT /\ IsDigit(v[5])

VersionTriple(v) == <<v[1] - 48, v[3] - 48, v[5] - 48>>

TripleGeq(a, b) ==
  \/ a[1] > b[1]
  \/ a[1] = b[1] /\ a[2] > b[2]
  \/ a[1] = b[1] /\ a[2] = b[2] /\ a[3] >= b[3]

\* semver.valid(version)
SemverValid(v) == IsVersionText(v)

\* semver.satisfies(version, range)
SemverSatisfies(v, r) ==
  /\ IsVersionText(v)
  /\ \/ r = <<42>>
     \/ IsVersionText(r) /\ VersionTriple(v) = VersionTriple(r)
     \/ /\ Len(r) = 6 /\ r[1] = 94 /\ IsVersionText(Tail(r))
        /\ LET a == VersionTriple(v)
               b == VersionTriple(Tail(r))
           IN /\ TripleGeq(a, b)
              /\ IF b[1] > 0 THEN a[1] = b[1]
                 ELSE IF b[2] > 0 THEN a[1] = 0 /\ a[2] = b[2]
                 ELSE a = b

(***************************************************************************)
(* State.                                                                  *)
(*   fsKind, fsData  the filesystem: which paths exist ("dir" or "file")   *)
(*                   and what each manifest file holds; stable in a run    *)
(*   policy          what options.error does: "continue" (the hook returns)*)
(*                   or "raise" (the hook, or the default, throws)         *)
(*   cache, bindings the Verifier's fields (`visited` and the native-      *)
(*                   binding basenames)                                    *)
(*   stack           the verifyPackage activations, innermost last         *)
(*   pc              "idle" (no verify call active), "running", "thrown"   *)
(*                   (an Error raised through this.error left verify),     *)
(*                   "crashed" (a TypeError left verify), "overflow" (the  *)
(*                   call stack was exhausted)                             *)
(*   calls           number of verify() calls started on this Verifier     *)
(*   errors, debugs  the messages handed to this.error / this.debug        *)
(*   resolved        every resolve() call made, with its result            *)
(*   reads           per directory, how many times read() was called       *)
(*   visits          per directory, how many times the body of             *)
(*                   verifyPackage ran                                     *)
(***************************************************************************)
VARIABLES fsKind, fsData, policy, cache, bindings, stack, pc, calls,
          errors, debugs, resolved, reads, visits

vars == <<fsKind, fsData, policy, cache, bindings, stack, pc, calls,
          errors, debugs, resolved, reads, visits>>

(***************************************************************************)
(* Helpers of the source: getModulePaths, stat, resolve, read, hasBinding. *)
(***************************************************************************)
\* the three dependency fields, in the order they are processed
fields == <<"dependencies", "peerDependencies", "optionalDependencies">>

\* "node_modules" reversed
nmChars == <<115, 101, 108, 117, 100, 111, 109, 95, 101, 100, 111, 110>>
nmLen == 12

\* the environment: process.execPath "/p/bin/node", HOME "/h", NODE_PATH "/g:"
ExecPath == <<47, 112, 47, 98, 105, 110, 47, 110, 111, 100, 101>>
EnvHome == <<47, 104>>
EnvNodePath == <<47, 103, 58>>

globalPaths ==
  LET prefix == PathResolve(ExecPath, <<46, 46, 47, 46, 46>>)
      base == <<PathResolve(prefix, <<108, 105, 98, 47, 110, 111, 100, 101>>)>>
      \* ".node_modules", ".node_libraries"
      dotModules == <<DOT>> \o NodeModules
      dotLibraries == <<46, 110, 111, 100, 101, 95, 108, 105, 98, 114, 97, 114, 105, 101, 115>>
      withHome == IF Len(EnvHome) > 0
                    THEN <<PathResolve(EnvHome, dotModules),
                           PathResolve(EnvHome, dotLibraries)>> \o base
                    ELSE base
  IN IF Len(EnvNodePath) > 0
       THEN SelectSeq(SplitOn(EnvNodePath, PathDelimiter),
                      LAMBDA part : Len(part) > 0) \o withHome
       ELSE withHome

\* the loop of getModulePaths; i, last and p are the source's (0-based) values
RECURSIVE ModulePathsLoop(_, _, _, _, _)
ModulePathsLoop(from, i, last, p, paths) ==
  IF i < 0 THEN paths
  ELSE LET code == from[i + 1]
       IN IF code = SLASH
            THEN ModulePathsLoop(from, i - 1, i, 0,
                   IF p # nmLen
                     THEN Append(paths, SubSeq(from, 1, last) \o <<SLASH>> \o NodeModules)
                     ELSE paths)
          ELSE IF p # -1
            THEN ModulePathsLoop(from, i - 1, last,
                   IF p < Len(nmChars) /\ nmChars[p + 1] = code THEN p + 1 ELSE -1,
                   paths)
          ELSE ModulePathsLoop(from, i - 1, last, p, paths)

getModulePaths(dir) ==
  LET from == PathResolve(<<SLASH>>, dir)
  IN IF from = <<SLASH>>
       THEN <<<<SLASH>> \o NodeModules>> \o globalPaths
       ELSE Append(ModulePathsLoop(from, Len(from) - 1, Len(from), 0, <<>>),
                   <<SLASH>> \o NodeModules) \o globalPaths

\* a proper ancestor of filename is a regular file (statSync fails with ENOTDIR)
UnderFile(filename) ==
  \E q \in DOMAIN fsKind :
    /\ fsKind[q] = "file"
    /\ Len(q) < Len(filename)
    /\ SubSeq(filename, 1, Len(q) + 1) = q \o <<SLASH>>

\* stat(filename): 1 a directory, 0 another kind of file, e.errno (< 0) when
\* statSync throws
stat(filename) ==
  IF filename \in DOMAIN fsKind
    THEN (IF fsKind[filename] = "dir" THEN 1 ELSE 0)
    ELSE (IF UnderFile(filename) THEN -20 ELSE -2)

\* resolve()'s `return null`
NoPath == <<>>

\* the test resolve() applies to the path it is about to return
BaseMissing(base) == stat(base) < 0

RECURSIVE ResolveIn(_, _, _)
ResolveIn(paths, i, name) ==
  IF i > Len(paths) THEN NoPath
  ELSE IF stat(paths[i]) < 1 THEN ResolveIn(paths, i + 1, name)
  ELSE LET base == PathResolve(paths[i], name)
       IN IF BaseMissing(base) THEN ResolveIn(paths, i + 1, name)
          ELSE base

resolve(name, dirname) ==
  IF Len(name) > 0 /\ (name[1] = DOT \/ name[1] = SLASH)
    THEN LET base == PathResolve(dirname, name)
         IN IF BaseMissing(base) THEN NoPath ELSE base
    ELSE ResolveIn(getModulePaths(dirname), 1, name)

\* read(moddir): -1, -2 or the decoded manifest
read(moddir) ==
  LET filename == PathResolve(moddir, PackageJson)
  IN IF filename \notin DOMAIN fsData THEN Num(-1)
     ELSE IF fsData[filename].type = "unparsable" THEN Num(-2)
     ELSE fsData[filename]

hasBinding(moddir) ==
  LET filename == PathResolve(moddir, BindingGyp)
  IN filename \in DOMAIN fsKind /\ fsKind[filename] = "file"

(***************************************************************************)
(* The installations the model ranges over.  The start directory is /w;    *)
(* packages r, a, b and @s may be installed in /w/node_modules, and a      *)
(* second copy of b in /w/node_modules/a/node_modules.                     *)
(***************************************************************************)
\* "/w"
DirW == <<47, 119>>
DirWN == DirW \o <<SLASH>> \o NodeModules
DirR == DirWN \o <<SLASH>> \o NameR
DirA == DirWN \o <<SLASH>> \o NameA
DirB == DirWN \o <<SLASH>> \o NameB
DirS == DirWN \o <<SLASH>> \o NameScoped
DirAN == DirA \o <<SLASH>> \o NodeModules
DirB2 == DirAN \o <<SLASH>> \o NameB

\* file contents that JSON.parse rejects; no manifest file at all
Unparsable == [type |-> "unparsable"]
NoManifest == [type |-> "absent"]

Deps(pairs) == Obj(pairs)

RootManifests ==
  { Obj(<< <<"name", Str(NameR)>>, <<"version", Str(V120)>>,
           <<"dependencies", Deps(<< <<NameA, Str(R1)>>, <<NameB, Str(R1)>> >>)>> >>),
    Obj(<< <<"name", Str(NameR)>>,
           <<"dependencies", Deps(<< <<NameC, Str(RAny)>>, <<NameA, Str(R1)>> >>)>>,
           <<"peerDependencies", Deps(<< <<NameC, Str(R1)>> >>)>>,
           <<"optionalDependencies", Deps(<< <<NameC, Str(RAny)>>, <<NameB, Str(R2)>> >>)>> >>),
    Obj(<< <<"name", Str(NameR)>>,
           <<"dependencies", Deps(<< <<NameEmpty, Str(RAny)>>, <<NameScoped, Num(5)>>,
                                     <<NameUrl, Str(R1)>>, <<NameA, Num(7)>>,
                                     <<NameUpB, Str(RAny)>> >>)>>,
           <<"peerDependencies", Deps(<< <<NameScoped, Str(R1)>> >>)>>,
           <<"optionalDependencies", Deps(<< <<NameUrl, Null>>, <<NameScoped, Str(R2)>> >>)>> >>),
    Obj(<< <<"name", Str(NameR)>>,
           <<"dependencies", Str(NameX)>>,
           <<"peerDependencies", Num(0)>>,
           <<"optionalDependencies", Deps(<< <<NameA, Str(R2)>> >>)>> >>),
    Obj(<< <<"name", Str(NameX)>>, <<"version", Str(V120)>>,
           <<"dependencies", Deps(<< <<NameA, Str(R1)>> >>)>> >>),
    Null, Num(5), Str(NameR), Unparsable, NoManifest }

AManifests ==
  { Obj(<< <<"name", Str(NameA)>>, <<"version", Str(V120)>>,
           <<"dependencies", Deps(<< <<NameB, Str(R1)>> >>)>> >>),
    Obj(<< <<"name", Str(NameA)>>, <<"version", Str(V200)>>,
           <<"dependencies", Deps(<< <<NameB, Str(R2)>>, <<NameA, Str(RAny)>>,
                                     <<NameR, Str(RAny)>> >>)>> >>),
    Obj(<< <<"name", Str(NameA)>>, <<"version", Str(VBad)>>,
           <<"peerDependencies", Deps(<< <<NameB, Str(RAny)>> >>)>> >>),
    Obj(<< <<"name", Str(NameA)>>, <<"version", Num(1)>>,
           <<"dependencies", Deps(<< <<NameB, Str(RAny)>> >>)>> >>),
    Null, Unparsable, NoManifest }

BManifests ==
  { Obj(<< <<"name", Str(NameB)>>, <<"version", Str(V120)>> >>),
    Obj(<< <<"name", Str(NameB)>>, <<"version", Str(V200)>>,
           <<"dependencies", Deps(<< <<NameA, Str(R1)>> >>)>> >>),
    Obj(<< <<"name", Str(NameB)>>, <<"version", Str(VBad)>>,
           <<"optionalDependencies", Deps(<< <<NameA, Str(RAny)>>, <<NameC, Str(RAny)>> >>)>> >>),
    Num(5) }

B2Manifests ==
  { Obj(<< <<"name", Str(NameB)>>, <<"version", Str(V200)>>,
           <<"dependencies", Deps(<< <<NameB, Str(RAny)>> >>)>> >>),
    Obj(<< <<"name", Str(NameB)>>, <<"version", Str(V120)>>,
           <<"dependencies", Deps(<< <<NameA, Str(RAny)>> >>)>> >>) }

SManifest == Obj(<< <<"name", Str(NameScoped)>>, <<"version", Str(V120)>> >>)

\* an installation choice for one package path: absent, a regular file, or a
\* directory with some manifest (binding.gyp accompanies version 2.0.0)
Absent == [k |-> "none", m |-> NoManifest]
PlainFile == [k |-> "file", m |-> NoManifest]
Installed(ms) == {[k |-> "dir", m |-> m] : m \in ms}

HasGyp(m) == m.type = "object" /\ IsStr(Get(m, "version"), V200)

Emp == [x \in {} |-> 0]

KindOf(path, c) ==
  CASE c.k = "none" -> Emp
    [] c.k = "file" -> path :> "file"
    [] OTHER ->
         (path :> "dir")
         @@ (IF c.m.type = "absent" THEN Emp
             ELSE PathResolve(path, PackageJson) :> "file")
         @@ (IF HasGyp(c.m) THEN PathResolve(path, BindingGyp) :> "file" ELSE Emp)

DataOf(path, c) ==
  IF c.k = "dir" /\ c.m.type # "absent"
    THEN PathResolve(path, PackageJson) :> c.m
    ELSE Emp

World(r, a, b, b2) ==
  LET nested == IF a.k = "dir" THEN b2 ELSE Absent
  IN [kind |-> (<<SLASH>> :> "dir") @@ (DirW :> "dir") @@ (DirWN :> "dir")
                @@ KindOf(DirR, r) @@ KindOf(DirA, a) @@ KindOf(DirB, b)
                @@ KindOf(DirS, [k |-> "dir", m |-> SManifest])
                @@ (IF nested.k = "dir" THEN DirAN :> "dir" ELSE Emp)
                @@ KindOf(DirB2, nested),
      data |-> DataOf(DirR, r) @@ DataOf(DirA, a) @@ DataOf(DirB, b)
               @@ DataOf(DirS, [k |-> "dir", m |-> SManifest])
               @@ DataOf(DirB2, nested)]

Worlds ==
  { World(r, a, b, b2) :
      r \in Installed(RootManifests),
      a \in Installed(AManifests) \cup {Absent, PlainFile},
      b \in Installed(BManifests) \cup {Absent},
      b2 \in Installed(B2Manifests) \cup {Absent} }

\* the (name, start directory) requests made of verify()
RootNames == {NameR, NameRelA, NameC}
StartDirs == {DirW}

(***************************************************************************)
(* Messages.  A message is recorded with its kind and the values the       *)
(* source interpolates into it, together with the dependency field and the *)
(* directory of the package being processed.                               *)
(***************************************************************************)
Msg(kind, field, name, expect, version, dir) ==
  [kind |-> kind, field |-> field, name |-> name, expect |-> expect,
   version |-> version, dir |-> dir]

\* the text of a string value, "" for anything else (message bookkeeping only)
Text(v) == IF v.type = "string" THEN v.val ELSE <<>>

Bump(counter, d) ==
  IF d \in DOMAIN counter THEN [counter EXCEPT ![d] = @ + 1]
  ELSE counter @@ (d :> 1)

Count(counter, d) == IF d \in DOMAIN counter THEN counter[d] ELSE 0

(***************************************************************************)
(* Verifier                                                                *)
(***************************************************************************)
Init ==
  /\ \E w \in Worlds : fsKind = w.kind /\ fsData = w.data
  /\ policy \in {"continue", "raise"}
  /\ cache = {}
  /\ bindings = {}
  /\ stack = <<>>
  /\ pc = "idle"
  /\ calls = 0
  /\ errors = {}
  /\ debugs = {}
  /\ resolved = {}
  /\ reads = Emp
  /\ visits = Emp

Frame(pkg, dirname) ==
  [pkg |-> pkg, dirname |-> dirname, at |-> "enter", fi |-> 1,
   keys |-> <<>>, deps |-> Null]

Top == stack[Len(stack)]

SetTop(f) == [stack EXCEPT ![Len(stack)] = f]

\* what the top-level verify() does with the manifest it has read, once the
\* main package.json was found: the error it reports, "TypeError" when the
\* property read throws, or "ok" when it goes on to verifyPackage
RootCheck(pkg, name) ==
  IF IsNum(pkg, -1) THEN "UnreadableManifest"
  ELSE IF IsNum(pkg, -2) THEN "MalformedManifest"
  ELSE IF GetThrows(pkg) THEN "TypeError"
  ELSE IF ~IsStr(Get(pkg, "name"), name) THEN "NameMismatch"
  ELSE IF ~Truthy(pkg) \/ TypeOf(pkg) # "object" THEN "MissingManifest"
  ELSE "ok"

\* the resolve() call a verify() or verifyDeps() site makes, with its result
Resolution(site, field, name, from, moddir) ==
  [site |-> site, call |-> calls, field |-> field, name |-> name,
   from |-> from, result |-> moddir]

\* verify() from the point where resolve() returned moddir and, when it found
\* a directory, read() returned pkg
VerifyRead(name, dirname, moddir, pkg) ==
  LET outcome == IF moddir = NoPath THEN "MissingManifest"
                 ELSE RootCheck(pkg, name)
  IN /\ reads' = IF moddir # NoPath THEN Bump(reads, moddir) ELSE reads
     /\ debugs' = debugs
          \cup (IF moddir # NoPath
                  THEN {Msg("OpeningMain", "", name, <<>>, <<>>, moddir)} ELSE {})
          \cup (IF outcome = "ok"
                  THEN {Msg("Opened", "", name, <<>>, <<>>, moddir)} ELSE {})
     /\ errors' = IF outcome \in {"ok", "TypeError"} THEN errors
                  ELSE errors \cup {Msg(outcome, "", name, <<>>, <<>>, moddir)}
     /\ CASE outcome = "ok" ->
               /\ pc' = "running"
               /\ stack' = <<Frame(pkg, moddir)>>
          [] outcome = "TypeError" ->
               /\ pc' = "crashed"
               /\ stack' = <<>>
          [] OTHER ->
               /\ pc' = IF policy = "raise" THEN "thrown" ELSE "idle"
               /\ stack' = <<>>

VerifyResolved(name, dirname, moddir) ==
  /\ resolved' = resolved \cup {Resolution("verify", "", name, dirname, moddir)}
  /\ VerifyRead(name, dirname, moddir,
                IF moddir = NoPath THEN Null ELSE read(moddir))

\* Verifier.verify(name, dirname), up to its call of verifyPackage; it can be
\* called whenever no call is active, also after a call that raised
Verify(name, dirname) ==
  /\ pc # "running"
  /\ calls < MaxCalls
  /\ calls' = calls + 1
  /\ VerifyResolved(name, dirname, resolve(name, dirname))
  /\ UNCHANGED <<fsKind, fsData, policy, cache, bindings, visits>>

\* the lookup with the memo check lost: every encounter runs the body
Cached_Never(c, dirname) == FALSE

\* the lookup keyed by package name instead of by resolved directory
Cached_ByName(c, dirname) ==
  \E e \in c : PathBasename(e) = PathBasename(dirname)

\* this.cache[dirname]
Cached(c, dirname) == dirname \in c

\* the insertion keyed by basename while the lookup is keyed by directory
Mark_ByName(c, dirname) == c \cup {PathBasename(dirname)}

\* this.cache[dirname] = true
Mark(c, dirname) == c \cup {dirname}

\* a return from verifyPackage: the caller's loop goes on, or verify returns
Pop ==
  /\ stack' = SubSeq(stack, 1, Len(stack) - 1)
  /\ pc' = IF Len(stack) = 1 THEN "idle" ELSE "running"

\* Verifier.verifyPackage(pkg, dirname), up to its loop over the fields
VerifyPackage ==
  /\ pc = "running"
  /\ Top.at = "enter"
  /\ IF Cached(cache, Top.dirname)
       THEN /\ Pop
            /\ UNCHANGED <<cache, bindings, visits, debugs>>
       ELSE /\ cache' = Mark(cache, Top.dirname)
            /\ bindings' = IF hasBinding(Top.dirname)
                             THEN bindings \cup {PathBasename(Top.dirname)}
                             ELSE bindings
            /\ visits' = Bump(visits, Top.dirname)
            /\ debugs' = debugs \cup
                 {Msg("Verifying", "", Text(Get(Top.pkg, "name")), <<>>, <<>>, Top.dirname)}
            /\ stack' = SetTop([Top EXCEPT !.at = "fields", !.fi = 1])
            /\ pc' = "running"
  /\ UNCHANGED <<fsKind, fsData, policy, calls, errors, resolved, reads>>

\* one iteration of verifyPackage's loop over the fields
VerifyField ==
  /\ pc = "running"
  /\ Top.at = "fields"
  /\ Top.fi <= Len(fields)
  /\ LET field == fields[Top.fi]
         deps == Get(Top.pkg, field)
         next == [Top EXCEPT !.fi = @ + 1]
     IN IF ~Truthy(deps)
          THEN /\ stack' = SetTop(next)
               /\ UNCHANGED <<pc, errors>>
        ELSE IF TypeOf(deps) # "object"
          THEN /\ errors' = errors \cup
                    {Msg("InvalidField", field, <<>>, <<>>, <<>>, Top.dirname)}
               /\ IF policy = "raise"
                    THEN pc' = "thrown" /\ stack' = <<>>
                    ELSE pc' = pc /\ stack' = SetTop(next)
        ELSE /\ stack' = SetTop([Top EXCEPT !.at = "deps", !.deps = deps,
                                            !.keys = ObjectKeys(deps)])
             /\ UNCHANGED <<pc, errors>>
  /\ UNCHANGED <<fsKind, fsData, policy, cache, bindings, calls, debugs,
                 resolved, reads, visits>>

\* the end of verifyPackage
PackageDone ==
  /\ pc = "running"
  /\ Top.at = "fields"
  /\ Top.fi > Len(fields)
  /\ debugs' = debugs \cup
       {Msg("Valid", "", Text(Get(Top.pkg, "name")), <<>>, <<>>, Top.dirname)}
  /\ Pop
  /\ UNCHANGED <<fsKind, fsData, policy, cache, bindings, calls, errors,
                 resolved, reads, visits>>

\* name.indexOf("://") !== -1
HasUrlMarker(name) ==
  \E i \in 1..Len(name) :
    i + 2 <= Len(name) /\ SubSeq(name, i, i + 2) = <<COLON, SLASH, SLASH>>

\* only the scope marker is honoured
IsSkipped_ScopeOnly(name) == name[1] = AT

\* the names verifyDeps passes over in silence (name is not empty)
IsSkipped(name) == name[1] = AT \/ HasUrlMarker(name)

\* peer dependencies treated as leniently as optional ones
MissingIsTrace_Peer(field) == field # "dependencies"

\* an unresolvable dependency of this field is only traced
MissingIsTrace(field) == field = "optionalDependencies"

\* the range test made without the validity test before it
VersionErrors_NoValid(version, expect) ==
  IF ~SemverSatisfies(version, expect) THEN {"UnmetVersion"} ELSE {}

\* the errors verifyDeps reports for an installed version and the expected range
VersionErrors(version, expect) ==
  IF ~SemverValid(version) THEN {"InvalidVersion"}
  ELSE IF ~SemverSatisfies(version, expect) THEN {"UnmetVersion"}
  ELSE {}

\* resolution from the root package's directory
DepBase_Root(f) == stack[1].dirname

\* the directory a dependency of the package in frame f is resolved from
DepBase(f) == f.dirname

Outcome(errs, res, rd, dbg, dbgAfter, call, pkg, moddir) ==
  [errs |-> errs, res |-> res, rd |-> rd, dbg |-> dbg, dbgAfter |-> dbgAfter,
   call |-> call, pkg |-> pkg, moddir |-> moddir]

DepMsg(kind, d, version) ==
  {Msg(kind, d.field, d.name, d.range, version, d.dirname)}

\* verifyDeps' loop body from the point where read(moddir) returned pkg
DepRead(d, res, moddir, pkg) ==
  IF IsNum(pkg, -1)
    THEN Outcome(DepMsg("UnreadableManifest", d, <<>>), res, moddir,
                 DepMsg("OpeningSub", d, <<>>), {}, FALSE, Null, moddir)
  ELSE IF IsNum(pkg, -2)
    THEN Outcome(DepMsg("MalformedManifest", d, <<>>), res, moddir,
                 DepMsg("OpeningSub", d, <<>>), {}, FALSE, Null, moddir)
  ELSE IF ~Truthy(pkg) \/ TypeOf(Get(pkg, "version")) # "string"
    THEN Outcome(DepMsg("NoVersion", d, <<>>), res, moddir,
                 DepMsg("OpeningSub", d, <<>>), {}, FALSE, Null, moddir)
  ELSE Outcome(UNION {DepMsg(k, d, Get(pkg, "version").val) :
                        k \in VersionErrors(Get(pkg, "version").val, d.range)},
               res, moddir, DepMsg("OpeningSub", d, <<>>),
               DepMsg("ValidVersion", d, Get(pkg, "version").val),
               TRUE, pkg, moddir)

\* verifyDeps' loop body from the point where resolve() returned moddir
DepResolved(d, from, moddir) ==
  IF moddir = NoPath
    THEN (IF MissingIsTrace(d.field)
            THEN Outcome({}, {Resolution("verifyDeps", d.field, d.name, from, moddir)},
                         NoPath, DepMsg("MissingOptional", d, <<>>), {},
                         FALSE, Null, NoPath)
            ELSE Outcome(DepMsg("MissingDependency", d, <<>>),
                         {Resolution("verifyDeps", d.field, d.name, from, moddir)},
                         NoPath, {}, {}, FALSE, Null, NoPath))
    ELSE DepRead(d, {Resolution("verifyDeps", d.field, d.name, from, moddir)},
                 moddir, read(moddir))

\* one iteration of verifyDeps' loop, for the key `name` of `deps`, up to its
\* call of verifyPackage: the messages, the resolve() and read() calls it
\* makes, and whether it reaches the call
DepOutcome(field, name, deps, dirname, from) ==
  IF Len(name) = 0
    THEN Outcome({Msg("InvalidName", field, name, <<>>, <<>>, dirname)},
                 {}, NoPath, {}, {}, FALSE, Null, NoPath)
  ELSE IF IsSkipped(name)
    THEN Outcome({}, {}, NoPath, {}, {}, FALSE, Null, NoPath)
  ELSE IF TypeOf(Get(deps, name)) # "string"
    THEN Outcome({Msg("InvalidField", field, name, <<>>, <<>>, dirname)},
                 {}, NoPath, {}, {}, FALSE, Null, NoPath)
  ELSE DepResolved([field |-> field, name |-> name,
                    range |-> Get(deps, name).val, dirname |-> dirname],
                   from, resolve(name, from))

\* what VerifyDep does with the outcome o of the iteration
ApplyDep(o) ==
  /\ errors' = errors \cup o.errs
  /\ resolved' = resolved \cup o.res
  /\ reads' = IF o.rd # NoPath THEN Bump(reads, o.rd) ELSE reads
  /\ debugs' = debugs \cup o.dbg
       \cup (IF o.errs # {} /\ policy = "raise" THEN {} ELSE o.dbgAfter)
  /\ IF o.errs # {} /\ policy = "raise"
       THEN pc' = "thrown" /\ stack' = <<>>
     ELSE IF ~o.call
       THEN pc' = pc /\ stack' = SetTop([Top EXCEPT !.keys = Tail(@)])
     ELSE IF Len(stack) >= MaxDepth
       THEN pc' = "overflow" /\ stack' = <<>>
     ELSE pc' = pc /\ stack' = Append(SetTop([Top EXCEPT !.keys = Tail(@)]),
                                      Frame(o.pkg, o.moddir))

\* one iteration of verifyDeps' loop, with its call of verifyPackage
VerifyDep ==
  /\ pc = "running"
  /\ Top.at = "deps"
  /\ Top.keys # <<>>
  /\ ApplyDep(DepOutcome(fields[Top.fi], Head(Top.keys), Top.deps, Top.dirname,
                         DepBase(Top)))
  /\ UNCHANGED <<fsKind, fsData, policy, cache, bindings, calls, visits>>

\* the end of verifyDeps: back in verifyPackage's loop over the fields
DepsDone ==
  /\ pc = "running"
  /\ Top.at = "deps"
  /\ Top.keys = <<>>
  /\ stack' = SetTop([Top EXCEPT !.at = "fields", !.fi = @ + 1,
                                 !.deps = Null])
  /\ UNCHANGED <<fsKind, fsData, policy, cache, bindings, pc, calls, errors,
                 debugs, resolved, reads, visits>>

VerifyCall == \E name \in RootNames, dirname \in StartDirs : Verify(name, dirname)

Next ==
  \/ VerifyCall
  \/ VerifyPackage
  \/ VerifyField
  \/ PackageDone
  \/ VerifyDep
  \/ DepsDone

Spec == Init /\ [][Next]_vars

\* The traversal is synchronous: while a verify call is running its next
\* step is always taken.  This is weak fairness of the steps of a running
\* call, WF_vars(pc = "running" /\ Next), with the enabling condition written
\* out as the state predicate it amounts to (a running call always has a next
\* step); the caller is under no obligation to call verify again.
Fairness == []<>(pc # "running") \/ []<><<Next>>_vars

LiveSpec == Spec /\ Fairness

(***************************************************************************)
(* What the filesystem declares, read off the manifests independently of   *)
(* the traversal: the dependency declarations of the package in directory  *)
(* d, and the directories a complete traversal is owed.                    *)
(***************************************************************************)
FieldDecls(d, field) ==
  LET deps == Get(read(d), field)
  IN IF deps.type # "object" THEN {}
     ELSE {[field |-> field, name |-> deps.props[i][1], expect |-> deps.props[i][2]] :
             i \in 1..Len(deps.props)}

Decls(d) == UNION {FieldDecls(d, fields[i]) : i \in 1..Len(fields)}

ScopedOrUrl(name) == Len(name) > 0 /\ (name[1] = 64 \/ HasUrlMarker(name))

\* declarations verifyDeps is to resolve: a non-empty, non-scoped, non-URL
\* name with a string range
Regular(decl) ==
  Len(decl.name) > 0 /\ ~ScopedOrUrl(decl.name) /\ decl.expect.type = "string"

\* a manifest verifyDeps recurses into: an object with a string version
Accepted(pkg) == pkg.type = "object" /\ Get(pkg, "version").type = "string"

\* the directories the package in d depends on through accepted manifests
Succ(d) ==
  {m \in {resolve(decl.name, d) : decl \in {x \in Decls(d) : Regular(x)}} :
     m # NoPath /\ Accepted(read(m))}

\* every directory of the filesystem with its successors
SuccMap == [d \in {x \in DOMAIN fsKind : fsKind[x] = "dir"} |-> Succ(d)]

RECURSIVE ReachAcc(_, _, _)
ReachAcc(S, seen, frontier) ==
  IF frontier \subseteq seen THEN seen
  ELSE ReachAcc(S, seen \cup frontier, UNION {S[d] : d \in frontier \ seen})

\* the directories reachable from d in one step or more, for each directory d
ReachMap ==
  LET S == SuccMap
  IN [d \in DOMAIN S |-> ReachAcc(S, {}, S[d])]

\* for each directory d, the directories on a dependency cycle through d
\* (empty when there is none)
CycleMap ==
  LET R == ReachMap
  IN [d \in DOMAIN R |-> {e \in R[d] : d \in R[e]}]

\* the body of verifyPackage has just run to its end for the package in d:
\* its three fields were processed and it is about to return
Done(d) ==
  /\ pc = "running"
  /\ Top.at = "fields"
  /\ Top.fi > Len(fields)
  /\ Top.dirname = d

HasMsg(log, kind, decl, d) ==
  \E e \in log : e.kind = kind /\ e.field = decl.field /\ e.name = decl.name /\ e.dir = d

AnyMsg(log, decl, d) ==
  \E e \in log : e.field = decl.field /\ e.name = decl.name /\ e.dir = d

(***************************************************************************)
(* Claims                                                                  *)
(***************************************************************************)

\* C1: within one Verifier the body of verifyPackage runs at most once per
\* package directory, whatever the graph and however often verify is called;
\* the directories whose body ran are exactly the members of `visited`.
C1_BodyAtMostOnce ==
  /\ DOMAIN visits = cache
  /\ \A d \in DOMAIN visits : visits[d] = 1

\* C1 witness: verifyPackage is entered for a directory already visited (a
\* second dependent, a cycle, or a second verify of the same root).
C1_Witness ==
  /\ pc = "running"
  /\ Top.at = "enter"
  /\ Top.dirname \in cache
  /\ visits[Top.dirname] = 1

\* C4: a regular declaration the resolver cannot find is reported through
\* onError when it stands in dependencies or peerDependencies, and never
\* through onError (only traced) when it stands in optionalDependencies.
C4_OptionalLeniency ==
  /\ \A e \in errors :
       e.kind = "MissingDependency" => e.field # "optionalDependencies"
  /\ \A d \in DOMAIN visits :
       Done(d) =>
         \A decl \in Decls(d) :
           (Regular(decl) /\ resolve(decl.name, d) = NoPath) =>
             IF decl.field = "optionalDependencies"
               THEN /\ ~AnyMsg(errors, decl, d)
                    /\ HasMsg(debugs, "MissingOptional", decl, d)
               ELSE HasMsg(errors, "MissingDependency", decl, d)

\* C4 witness: a package whose body completed declares the same missing name
\* in a required field and in the optional field.
C4_Witness ==
  \E d \in DOMAIN visits :
    /\ Done(d)
    /\ \E x, y \in Decls(d) :
         /\ Regular(x) /\ Regular(y) /\ x.name = y.name
         /\ resolve(x.name, d) = NoPath
         /\ x.field = "peerDependencies" /\ y.field = "optionalDependencies"
         /\ HasMsg(errors, "MissingDependency", x, d)

\* C5: a declaration whose name begins with '@' or contains "://" is never
\* handed to resolve(), never reported through onError, and no directory is
\* visited on its account.
C5_ScopedUrlSkipped ==
  /\ \A r \in resolved : r.site = "verifyDeps" => ~ScopedOrUrl(r.name)
  /\ \A e \in errors : e.field # "" => ~ScopedOrUrl(e.name)
  /\ \A d \in cache : \E r \in resolved : r.result = d /\ ~(r.site = "verifyDeps" /\ ScopedOrUrl(r.name))
  /\ \A d \in DOMAIN visits :
       Done(d) =>
         \A decl \in Decls(d) : ScopedOrUrl(decl.name) => ~AnyMsg(errors, decl, d)

\* C5 witness: a package whose body completed declares an installed scoped
\* name and a URL name, with string and non-string ranges.
C5_Witness ==
  \E d \in DOMAIN visits :
    /\ Done(d)
    /\ \E x, y, z \in Decls(d) :
         /\ x.name = NameScoped /\ x.expect.type = "string" /\ stat(DirS) = 1
         /\ y.name = NameUrl /\ y.expect.type = "string"
         /\ z.name = NameScoped /\ z.expect.type = "number"

\* C6: for a resolved dependency with string version v and range r, an
\* InvalidVersion error is reported iff v is not a valid version, an
\* UnmetVersion error iff v is valid and does not satisfy r, and either way
\* the dependency's own directory is visited.
C6_VersionMatching ==
  \A d \in DOMAIN visits :
    Done(d) =>
      \A decl \in Decls(d) :
        LET m == resolve(decl.name, d)
        IN (Regular(decl) /\ m # NoPath /\ Accepted(read(m))) =>
             LET v == Get(read(m), "version").val
                 r == decl.expect.val
             IN /\ HasMsg(errors, "InvalidVersion", decl, d) <=> ~SemverValid(v)
                /\ HasMsg(errors, "UnmetVersion", decl, d)
                     <=> (SemverValid(v) /\ ~SemverSatisfies(v, r))
                /\ m \in cache

\* C6 witness: a completed package has one dependency with an invalid
\* version and one with a valid but unmet version, and both were visited.
C6_Witness ==
  \E d \in DOMAIN visits :
    /\ Done(d)
    /\ \E x, y \in Decls(d) :
         /\ HasMsg(errors, "InvalidVersion", x, d)
         /\ HasMsg(errors, "UnmetVersion", y, d)
         /\ resolve(x.name, d) \in cache
         /\ resolve(y.name, d) \in cache

\* C8: every declaration is resolved from the directory of the package that
\* declares it, and visiting is keyed by the resolved directory: whatever an
\* accepted declaration resolves to from its own package is visited.
C8_ResolvedFromDependent ==
  /\ \A r \in resolved :
       r.site = "verifyDeps" =>
         /\ r.from \in cache
         /\ \E decl \in Decls(r.from) : decl.field = r.field /\ decl.name = r.name
         /\ r.result = resolve(r.name, r.from)
  /\ \A d \in DOMAIN visits :
       Done(d) =>
         \A decl \in Decls(d) :
           Regular(decl) =>
             /\ \E r \in resolved :
                  /\ r.site = "verifyDeps" /\ r.field = decl.field
                  /\ r.name = decl.name /\ r.from = d
             /\ resolve(decl.name, d) \in Succ(d) => resolve(decl.name, d) \in cache

\* C8 witness: the name b resolved to two different directories for two
\* dependents, and both were visited.
C8_Witness ==
  /\ Done(DirR)
  /\ {DirB, DirB2} \subseteq cache
  /\ \E r1, r2 \in resolved :
       /\ r1.name = NameB /\ r2.name = NameB
       /\ r1.result = DirB /\ r2.result = DirB2
       /\ r1.from # r2.from

\* C2, termination: every running verify call comes to an end, by returning
\* or by the hook raising, and never by exhausting the stack.
C2_VerifyTerminates == (pc = "running") ~> (pc \in {"idle", "thrown"})

\* C2 (as claimed): when a verify call on a fresh Verifier has returned,
\* every directory on a dependency cycle through the directory of the
\* requested package has been verified exactly once.
C2_CycleVerifiedOnReturn ==
  pc = "idle" /\ calls = 1 =>
    \A r \in resolved :
      r.site = "verify" /\ r.result \in DOMAIN CycleMap =>
        \A e \in CycleMap[r.result] : Count(visits, e) = 1

\* C3 (as claimed): after a NameMismatch reported through a hook that
\* returns, verify goes on to verifyPackage, so the root directory is visited.
C3_NameMismatchContinues ==
  \A e \in errors :
    (/\ e.kind = "NameMismatch"
     /\ policy = "continue"
     /\ pc = "idle"
     /\ read(e.dir).type = "object") => e.dir \in cache

\* C7 (as claimed): resolve() returns a path only if it is an existing
\* directory; a regular file is never returned.
C7_ResolveOnlyDirectories ==
  \A r \in resolved : r.result # NoPath => stat(r.result) = 1

\* C9 (as claimed): the manifest of any one directory is read at most once
\* in a run (here: within a single verify call).
C9_ReadAtMostOnce ==
  calls <= 1 => \A d \in DOMAIN reads : reads[d] <= 1

\* C9 (amended): a directory's manifest is read once for every resolve() call
\* that returns it (one per verify call, one per dependency declaration
\* resolving to it) and no declaration is resolved twice; only the processing
\* of its dependency maps happens at most once.
C9_ReadPerResolution ==
  /\ \A d \in DOMAIN reads :
       reads[d] = Cardinality({r \in resolved : r.result = d})
  /\ \A r \in resolved : r.result # NoPath => r.result \in DOMAIN reads
  /\ \A d \in DOMAIN visits : visits[d] <= 1

\* C9 witness: a directory visited once whose manifest was read for two
\* different dependents.
C9_Witness ==
  \E d \in DOMAIN visits :
    /\ visits[d] = 1
    /\ Count(reads, d) >= 2
    /\ \E r1, r2 \in resolved :
         /\ r1.site = "verifyDeps" /\ r2.site = "verifyDeps"
         /\ r1.result = d /\ r2.result = d /\ r1.from # r2.from

\* C10 (as claimed): with a hook that returns normally no exception leaves
\* verify, whatever the manifests decode to.
C10_VerifierNeverRaises ==
  policy = "continue" => pc \in {"idle", "running"}

====
